---- MODULE Spec2Model ----
(***************************************************************************)
(* Products API (src/app.py): primary writes, replica reads, Redis         *)
(* cache-aside.  Every handler is a process that advances one external     *)
(* call (Redis, replica, primary) at a time, so that concurrent requests   *)
(* interleave exactly where the code blocks on I/O.  Each external call    *)
(* either succeeds or raises a connectivity error.                         *)
(***************************************************************************)
EXTENDS Integers, Sequences, FiniteSets, TLC

\* ---------------------------------------------------------------- bounds
MaxRequests == 3    \* requests the API accepts in one behaviour

Procs == {1, 2}     \* concurrent request workers
Ids == {1, 2}       \* ids a request may name; the id sequence stays within them

\* ---------------------------------------------------------------- config
CACHE_TTL_SECONDS == 60

VARIABLES
    primary,    \* committed rows of table products on the primary: id -> row
    replica,    \* rows visible on the read replica (a past state of primary)
    cache,      \* Redis: key -> [value, ttl]
    nextId,     \* next value of the id sequence
    clock,      \* server clock read by now()
    rowlock,    \* id -> worker holding the row lock of an uncommitted UPDATE, 0 if none
    req,        \* worker -> the request it is serving and its local variables (seen:
                \* the versions of its product already returned when it was accepted)
    resp,       \* the response sent by the last step, if it sent one, with its request's call log
    started,    \* number of requests accepted so far
    history,    \* id -> set of row versions ever committed on the primary
    returned,   \* id -> set of row versions a successful Create or Update has returned
    reached     \* id -> those of them whose cache write (set or delete) Redis answered

vars == <<primary, replica, cache, nextId, clock, rowlock, req, resp, started, history, returned, reached>>

\* ------------------------------------------------------------ data model
\* Optional values (None / value) are the empty set / a singleton.
None == {}
Some(v) == {v}
TheVal(m) == CHOOSE v \in m : TRUE

\* A timestamp column value as psycopg2 returns it (datetime).
Datetime(t) == <<"datetime", t>>
\* str(datetime): what json.dumps(..., default=str) makes of it.
Str(d) == <<"str", d[2]>>

\* ProductUpdate bodies served: a field left at its default None is not in the
\* domain.  No field, either field alone, both fields.
UpdatePayloads ==
    {[f \in {} |-> 0],
     [name |-> "Cider"],
     [price_cents |-> 300],
     [name |-> "Juice", price_cents |-> 250]}

\* ProductCreate bodies served: both fields are required.
CreatePayloads ==
    {[name |-> "Juice", price_cents |-> 250],
     [name |-> "Cider", price_cents |-> 300]}

\* Mutation of cache_key: the id is not interpolated ("product:{id}" without
\* the f prefix), every product shares one key.
cache_key_constant(product_id) == <<"product", 0>>

cache_key(product_id) == <<"product", product_id>>

\* json.dumps(value, default=str): ints and strings are kept, the datetime
\* is not JSON-serialisable and goes through str().
JsonDumps(value) == <<"json", [value EXCEPT !.updated_at = Str(@)]>>
\* json.loads(val)
JsonLoads(val) == val[2]

\* HTTP status codes of the terminal outcomes.
Success == 200
Created == 201
BadRequest == 400
NotFound == 404
ServiceUnavailable == 503

\* ------------------------------------------------------------ worker state
NoPayload == [f \in {} |-> 0]

Idle ==
    [kind |-> "idle", pc |-> "idle", product_id |-> 0, payload |-> NoPayload,
     row |-> None, txnow |-> 0, seen |-> {}, log |-> <<>>]

NoResponse ==
    [kind |-> "none", product_id |-> 0, payload |-> NoPayload,
     status |-> 0, result |-> None, seen |-> {}, log |-> <<>>]

\* One external call in a request's log: the operation, the server's answer
\* ("error" for a connectivity failure) and the row it returned, if any.
Ev(op, res, data) == <<op, res, data>>

\* Number of entries of log s whose operation is op.
RECURSIVE Count(_, _)
Count(s, op) ==
    IF s = <<>> THEN 0
    ELSE (IF Head(s)[1] = op THEN 1 ELSE 0) + Count(Tail(s), op)

\* The handler goes on to its next external call.
Continue(p, r) ==
    /\ req' = [req EXCEPT ![p] = r]
    /\ resp' = NoResponse

\* The handler returns (or raises HTTPException): the response is sent and the
\* worker is free for the next request.
Respond(p, log, status, result) ==
    /\ req' = [req EXCEPT ![p] = Idle]
    /\ resp' = [kind |-> req[p].kind, product_id |-> req[p].product_id,
                payload |-> req[p].payload, status |-> status, result |-> result,
                seen |-> req[p].seen, log |-> log]

Init ==
    /\ primary = [i \in {} |-> 0]
    /\ replica = [i \in {} |-> 0]
    /\ cache = [k \in {} |-> 0]
    /\ nextId = 1
    /\ clock = 0
    /\ rowlock = [i \in Ids |-> 0]
    /\ req = [p \in Procs |-> Idle]
    /\ resp = NoResponse
    /\ started = 0
    /\ history = [i \in Ids |-> {}]
    /\ returned = [i \in Ids |-> {}]
    /\ reached = [i \in Ids |-> {}]

\* --------------------------------------------------------- cache adapter
\* Mutation of redis_get_json: the test on val inverted (json.loads(val) if not val).
redis_get_json_inverted(c, key, ok) == None

\* redis_get_json: r.get + json.loads; any Redis error gives None.
redis_get_json(c, key, ok) ==
    IF ok /\ key \in DOMAIN c THEN Some(JsonLoads(c[key].value)) ELSE None

\* Mutation of redis_set_json: the setex call left out.
redis_set_json_dropped(c, key, value, ttl_seconds, ok) == c

\* Mutation of redis_set_json: the entry is written only when the key does not
\* exist yet (SET NX in place of SETEX).
redis_set_json_nx(c, key, value, ttl_seconds, ok) ==
    IF ok /\ key \notin DOMAIN c
    THEN [k \in DOMAIN c \cup {key} |->
             IF k = key THEN [value |-> JsonDumps(value), ttl |-> ttl_seconds] ELSE c[k]]
    ELSE c

\* Mutation of redis_set_json: r.set in place of r.setex, the entry has no expiry.
redis_set_json_noExpiry(c, key, value, ttl_seconds, ok) ==
    IF ok
    THEN [k \in DOMAIN c \cup {key} |->
             IF k = key THEN [value |-> JsonDumps(value), ttl |-> 0] ELSE c[k]]
    ELSE c

\* redis_set_json: r.setex(key, ttl, json.dumps(value, default=str)); errors dropped.
redis_set_json(c, key, value, ttl_seconds, ok) ==
    IF ok
    THEN [k \in DOMAIN c \cup {key} |->
            IF k = key THEN [value |-> JsonDumps(value), ttl |-> ttl_seconds] ELSE c[k]]
    ELSE c

\* Mutation of redis_del: the delete call left out.
redis_del_dropped(c, key, ok) == c

\* redis_del: r.delete(key); errors dropped.
redis_del(c, key, ok) ==
    IF ok THEN [k \in DOMAIN c \ {key} |-> c[k]] ELSE c

\* Mutation of fetch_product_from_db: the WHERE clause left out, fetchone() gives
\* the first row of the table.
fetch_product_from_db_noWhere(db, product_id) ==
    IF DOMAIN db # {} THEN Some(db[CHOOSE i \in DOMAIN db : \A j \in DOMAIN db : i <= j])
    ELSE None

\* fetch_product_from_db: SELECT ... WHERE id = %s; fetchone() gives the row or None.
fetch_product_from_db(db, product_id) ==
    IF product_id \in DOMAIN db THEN Some(db[product_id]) ELSE None

\* --------------------------------------------------------- store adapter
\* Mutation of NoFields: the second test negated (price_cents is not None).
NoFields_negated(payload) ==
    "name" \notin DOMAIN payload /\ "price_cents" \in DOMAIN payload

\* payload.name is None and payload.price_cents is None
NoFields(payload) == DOMAIN payload = {}

\* Mutation of UpdatedRow: both columns are always in the SET clause, so a
\* field the request left out is overwritten with an empty value.
UpdatedRow_allColumns(old, payload, now) ==
    [id |-> old.id,
     name |-> IF "name" \in DOMAIN payload THEN payload.name ELSE "",
     price_cents |-> IF "price_cents" \in DOMAIN payload THEN payload.price_cents ELSE 0,
     updated_at |-> Datetime(now)]

\* UPDATE products SET <supplied fields>, updated_at = now() WHERE id = %s RETURNING ...
UpdatedRow(old, payload, now) ==
    [id |-> old.id,
     name |-> IF "name" \in DOMAIN payload THEN payload.name ELSE old.name,
     price_cents |-> IF "price_cents" \in DOMAIN payload THEN payload.price_cents
                     ELSE old.price_cents,
     updated_at |-> Datetime(now)]

\* Column defaults of table products that the INSERT relies on: id from the
\* sequence, updated_at = now().
SchemaDefaults(seq, now) == [id |-> seq, updated_at |-> Datetime(now)]

\* Mutation of InsertedRow: price_cents left out of the VALUES tuple, the column
\* takes a default of 0.
InsertedRow_noPrice(payload, seq, now) ==
    [id |-> SchemaDefaults(seq, now).id,
     name |-> payload.name,
     price_cents |-> 0,
     updated_at |-> SchemaDefaults(seq, now).updated_at]

\* INSERT INTO products (name, price_cents) VALUES (%s, %s) RETURNING ...
InsertedRow(payload, seq, now) ==
    [id |-> SchemaDefaults(seq, now).id,
     name |-> payload.name,
     price_cents |-> payload.price_cents,
     updated_at |-> SchemaDefaults(seq, now).updated_at]

\* conn.commit() reaching the server: the transaction's row becomes visible.
Commit(db, row) ==
    IF row = None THEN db
    ELSE [i \in DOMAIN db \cup {TheVal(row).id} |->
            IF i = TheVal(row).id THEN TheVal(row) ELSE db[i]]

\* Creates accepted whose INSERT has not yet drawn from the sequence.
PendingInserts == Cardinality({q \in Procs : req[q].pc = "c_insert"})

\* ------------------------------------------------------------ GET handler
StartGet(p) ==
    /\ req[p].pc = "idle"
    /\ started < MaxRequests
    /\ \E id \in Ids :
         req' = [req EXCEPT ![p] = [Idle EXCEPT !.kind = "get", !.pc = "g_cache",
                                                !.product_id = id, !.seen = returned[id]]]
    /\ started' = started + 1
    /\ UNCHANGED <<primary, replica, cache, nextId, clock, rowlock, history, returned, reached>>
    /\ resp' = NoResponse

\* Mutation of GetCacheLookup: a Redis error is not swallowed and ends the
\* request as a 503.
GetCacheLookup_propagate(p) ==
    /\ req[p].pc = "g_cache"
    /\ \E ok \in BOOLEAN :
         LET cached == redis_get_json(cache, cache_key(req[p].product_id), ok)
             res == IF ~ok THEN "error"
                    ELSE IF cache_key(req[p].product_id) \in DOMAIN cache THEN "present"
                    ELSE "absent"
             log == Append(req[p].log, Ev("redis_get", res, None))
         IN IF ~ok
            THEN Respond(p, log, ServiceUnavailable, None)
            ELSE IF cached # None
            THEN Respond(p, log, Success, cached)
            ELSE Continue(p, [req[p] EXCEPT !.pc = "g_replica", !.log = log])
    /\ UNCHANGED <<primary, replica, cache, nextId, clock, rowlock, started, history, returned, reached>>

\* get_product, step 1: Redis lookup; a truthy cached value is returned at once.
GetCacheLookup(p) ==
    /\ req[p].pc = "g_cache"
    /\ \E ok \in BOOLEAN :
         LET cached == redis_get_json(cache, cache_key(req[p].product_id), ok)
             res == IF ~ok THEN "error"
                    ELSE IF cache_key(req[p].product_id) \in DOMAIN cache THEN "present"
                    ELSE "absent"
             log == Append(req[p].log, Ev("redis_get", res, None))
         IN IF cached # None
            THEN Respond(p, log, Success, cached)
            ELSE Continue(p, [req[p] EXCEPT !.pc = "g_replica", !.log = log])
    /\ UNCHANGED <<primary, replica, cache, nextId, clock, rowlock, started, history, returned, reached>>

\* get_product after a fetch returned: 404 on no row, else go on to the cache write.
GetAfterFetch(p, log, row) ==
    IF row = None
    THEN Respond(p, log, NotFound, None)
    ELSE Continue(p, [req[p] EXCEPT !.pc = "g_set", !.row = row, !.log = log])

\* Mutation of GetFetchReplica: the primary fetch is not confined to the except
\* branch, so the primary is queried after a successful replica fetch too.
GetFetchReplica_alwaysFallback(p) ==
    /\ req[p].pc = "g_replica"
    /\ \E ok \in BOOLEAN :
         LET row == fetch_product_from_db(replica, req[p].product_id)
             res == IF ~ok THEN "error" ELSE IF row = None THEN "none" ELSE "row"
             log == Append(req[p].log, Ev("replica", res, IF ok THEN row ELSE None))
         IN Continue(p, [req[p] EXCEPT !.pc = "g_primary", !.log = log])
    /\ UNCHANGED <<primary, replica, cache, nextId, clock, rowlock, started, history, returned, reached>>

\* Mutation of GetFetchReplica: a replica that answers with no row is treated
\* like a replica that failed, and the primary is queried.
GetFetchReplica_fallbackOnNone(p) ==
    /\ req[p].pc = "g_replica"
    /\ \E ok \in BOOLEAN :
         LET row == fetch_product_from_db(replica, req[p].product_id)
             res == IF ~ok THEN "error" ELSE IF row = None THEN "none" ELSE "row"
             log == Append(req[p].log, Ev("replica", res, IF ok THEN row ELSE None))
         IN IF ok /\ row # None
            THEN GetAfterFetch(p, log, row)
            ELSE Continue(p, [req[p] EXCEPT !.pc = "g_primary", !.log = log])
    /\ UNCHANGED <<primary, replica, cache, nextId, clock, rowlock, started, history, returned, reached>>

\* get_product, step 2: fetch from the replica; a connectivity error leads to the fallback.
GetFetchReplica(p) ==
    /\ req[p].pc = "g_replica"
    /\ \E ok \in BOOLEAN :
         LET row == fetch_product_from_db(replica, req[p].product_id)
             res == IF ~ok THEN "error" ELSE IF row = None THEN "none" ELSE "row"
             log == Append(req[p].log, Ev("replica", res, IF ok THEN row ELSE None))
         IN IF ok
            THEN GetAfterFetch(p, log, row)
            ELSE Continue(p, [req[p] EXCEPT !.pc = "g_primary", !.log = log])
    /\ UNCHANGED <<primary, replica, cache, nextId, clock, rowlock, started, history, returned, reached>>

\* Mutation of GetFetchPrimary: the second connectivity error is swallowed, row
\* stays None and the handler answers 404.
GetFetchPrimary_swallow(p) ==
    /\ req[p].pc = "g_primary"
    /\ \E ok \in BOOLEAN :
         LET row == fetch_product_from_db(primary, req[p].product_id)
             res == IF ~ok THEN "error" ELSE IF row = None THEN "none" ELSE "row"
             log == Append(req[p].log, Ev("primary", res, IF ok THEN row ELSE None))
         IN GetAfterFetch(p, log, IF ok THEN row ELSE None)
    /\ UNCHANGED <<primary, replica, cache, nextId, clock, rowlock, started, history, returned, reached>>

\* Mutation of GetFetchPrimary: a connectivity error of the fallback starts the
\* fetches over (replica, then primary) instead of answering 503.
GetFetchPrimary_retry(p) ==
    /\ req[p].pc = "g_primary"
    /\ \E ok \in BOOLEAN :
         LET row == fetch_product_from_db(primary, req[p].product_id)
             res == IF ~ok THEN "error" ELSE IF row = None THEN "none" ELSE "row"
             log == Append(req[p].log, Ev("primary", res, IF ok THEN row ELSE None))
         IN IF ok
            THEN GetAfterFetch(p, log, row)
            ELSE Continue(p, [req[p] EXCEPT !.pc = "g_replica",
                                            !.log = SubSeq(req[p].log, 1, 1)])
    /\ UNCHANGED <<primary, replica, cache, nextId, clock, rowlock, started, history, returned, reached>>

\* get_product, fallback: fetch from the primary; a second connectivity error is a 503.
GetFetchPrimary(p) ==
    /\ req[p].pc = "g_primary"
    /\ \E ok \in BOOLEAN :
         LET row == fetch_product_from_db(primary, req[p].product_id)
             res == IF ~ok THEN "error" ELSE IF row = None THEN "none" ELSE "row"
             log == Append(req[p].log, Ev("primary", res, IF ok THEN row ELSE None))
         IN IF ok
            THEN GetAfterFetch(p, log, row)
            ELSE Respond(p, log, ServiceUnavailable, None)
    /\ UNCHANGED <<primary, replica, cache, nextId, clock, rowlock, started, history, returned, reached>>

\* get_product, step 3: best-effort cache write, then return the row.
GetCacheStore(p) ==
    /\ req[p].pc = "g_set"
    /\ \E ok \in BOOLEAN :
         LET key == cache_key(req[p].product_id)
             log == Append(req[p].log, Ev("redis_set", IF ok THEN "ok" ELSE "error", None))
         IN /\ cache' = redis_set_json(cache, key, TheVal(req[p].row), CACHE_TTL_SECONDS, ok)
            /\ Respond(p, log, Success, req[p].row)
    /\ UNCHANGED <<primary, replica, nextId, clock, rowlock, started, history, returned, reached>>

\* ------------------------------------------------------------ PUT handler
StartUpdate(p) ==
    /\ req[p].pc = "idle"
    /\ started < MaxRequests
    /\ \E id \in Ids, payload \in UpdatePayloads :
         req' = [req EXCEPT ![p] = [Idle EXCEPT !.kind = "update", !.pc = "u_begin",
                                                !.product_id = id, !.payload = payload,
                                                !.seen = returned[id]]]
    /\ started' = started + 1
    /\ UNCHANGED <<primary, replica, cache, nextId, clock, rowlock, history, returned, reached>>
    /\ resp' = NoResponse

\* Mutation of UpdBegin: a connectivity error of the connect is retried
\* instead of being answered with 503.
UpdBegin_retry(p) ==
    /\ req[p].pc = "u_begin"
    /\ IF NoFields(req[p].payload)
       THEN /\ Respond(p, req[p].log, BadRequest, None)
            /\ UNCHANGED clock
       ELSE \E ok \in BOOLEAN :
              IF ok
              THEN /\ clock' = clock + 1
                   /\ Continue(p, [req[p] EXCEPT !.pc = "u_exec", !.txnow = clock + 1,
                                      !.log = Append(@, Ev("primary_connect", "ok", None))])
              ELSE /\ Continue(p, [req[p] EXCEPT
                                      !.log = Append(@, Ev("primary_connect", "error", None))])
                   /\ UNCHANGED clock
    /\ UNCHANGED <<primary, replica, cache, nextId, rowlock, started, history, returned, reached>>

\* update_product: 400 when no field is given; else connect to the primary and
\* open the transaction (now() is fixed when the transaction begins).
UpdBegin(p) ==
    /\ req[p].pc = "u_begin"
    /\ IF NoFields(req[p].payload)
       THEN /\ Respond(p, req[p].log, BadRequest, None)
            /\ UNCHANGED clock
       ELSE \E ok \in BOOLEAN :
              IF ok
              THEN /\ clock' = clock + 1
                   /\ Continue(p, [req[p] EXCEPT !.pc = "u_exec", !.txnow = clock + 1,
                                      !.log = Append(@, Ev("primary_connect", "ok", None))])
              ELSE /\ Respond(p, Append(req[p].log, Ev("primary_connect", "error", None)),
                              ServiceUnavailable, None)
                   /\ UNCHANGED clock
    /\ UNCHANGED <<primary, replica, cache, nextId, rowlock, started, history, returned, reached>>

\* update_product: cur.execute(UPDATE ... RETURNING) and fetchone().  The UPDATE
\* waits for the row lock of a concurrent uncommitted UPDATE of the same row.
UpdExecute(p) ==
    /\ req[p].pc = "u_exec"
    /\ \E ok \in BOOLEAN :
         LET id == req[p].product_id
             found == id \in DOMAIN primary
             updated == IF found
                        THEN Some(UpdatedRow(primary[id], req[p].payload, req[p].txnow))
                        ELSE None
         IN IF ok
            THEN /\ found => rowlock[id] = 0
                 /\ rowlock' = IF found THEN [rowlock EXCEPT ![id] = p] ELSE rowlock
                 /\ Continue(p, [req[p] EXCEPT !.pc = "u_commit", !.row = updated,
                                    !.log = Append(@, Ev("primary_execute",
                                                         IF found THEN "row" ELSE "none",
                                                         updated))])
            ELSE /\ Respond(p, Append(req[p].log, Ev("primary_execute", "error", None)),
                            ServiceUnavailable, None)
                 /\ UNCHANGED rowlock
    /\ UNCHANGED <<primary, replica, cache, nextId, clock, started, history, returned, reached>>

\* Mutation of UpdCommit: the connectivity error of the commit is swallowed and
\* the handler goes on to the cache invalidation.
UpdCommit_swallow(p) ==
    /\ req[p].pc = "u_commit"
    /\ \E ok \in BOOLEAN, applied \in BOOLEAN :
         LET updated == req[p].row
         IN /\ ok => applied
            /\ primary' = IF applied THEN Commit(primary, updated) ELSE primary
            /\ history' = IF applied /\ updated # None
                          THEN [history EXCEPT ![TheVal(updated).id] = @ \cup updated]
                          ELSE history
            /\ rowlock' = [i \in Ids |-> IF rowlock[i] = p THEN 0 ELSE rowlock[i]]
            /\ IF updated = None
               THEN Respond(p, Append(req[p].log,
                                      Ev("primary_commit", IF ok THEN "ok" ELSE "error", None)),
                            NotFound, None)
               ELSE Continue(p, [req[p] EXCEPT !.pc = "u_del",
                                    !.log = Append(@, Ev("primary_commit",
                                                         IF ok THEN "ok" ELSE "error", None))])
    /\ UNCHANGED <<replica, cache, nextId, clock, started, returned, reached>>

\* Mutation of UpdCommit: the test "if not updated" is left out, so an UPDATE
\* that matched no row goes on to the cache invalidation and answers 200.
UpdCommit_noNotFound(p) ==
    /\ req[p].pc = "u_commit"
    /\ \E ok \in BOOLEAN, applied \in BOOLEAN :
         LET updated == req[p].row
         IN /\ ok => applied
            /\ primary' = IF applied THEN Commit(primary, updated) ELSE primary
            /\ history' = IF applied /\ updated # None
                          THEN [history EXCEPT ![TheVal(updated).id] = @ \cup updated]
                          ELSE history
            /\ rowlock' = [i \in Ids |-> IF rowlock[i] = p THEN 0 ELSE rowlock[i]]
            /\ IF ~ok
               THEN Respond(p, Append(req[p].log, Ev("primary_commit", "error", None)),
                            ServiceUnavailable, None)
               ELSE Continue(p, [req[p] EXCEPT !.pc = "u_del",
                                    !.log = Append(@, Ev("primary_commit", "ok", None))])
    /\ UNCHANGED <<replica, cache, nextId, clock, started, returned, reached>>

\* Mutation of UpdCommit: the cache entry is deleted in a finally clause, so
\* also when the commit raised and the request answers 503.
UpdCommit_finallyDel(p) ==
    /\ req[p].pc = "u_commit"
    /\ \E ok \in BOOLEAN, applied \in BOOLEAN :
         LET updated == req[p].row
         IN /\ ok => applied
            /\ primary' = IF applied THEN Commit(primary, updated) ELSE primary
            /\ history' = IF applied /\ updated # None
                          THEN [history EXCEPT ![TheVal(updated).id] = @ \cup updated]
                          ELSE history
            /\ rowlock' = [i \in Ids |-> IF rowlock[i] = p THEN 0 ELSE rowlock[i]]
            /\ IF ~ok
               THEN /\ Respond(p, req[p].log \o <<Ev("primary_commit", "error", None),
                                                  Ev("redis_del", "deleted", None)>>,
                               ServiceUnavailable, None)
                    /\ cache' = redis_del(cache, cache_key(req[p].product_id), TRUE)
               ELSE /\ UNCHANGED cache
                    /\ IF updated = None
                       THEN Respond(p, Append(req[p].log, Ev("primary_commit", "ok", None)),
                                    NotFound, None)
                       ELSE Continue(p, [req[p] EXCEPT !.pc = "u_del",
                                            !.log = Append(@, Ev("primary_commit", "ok", None))])
    /\ UNCHANGED <<replica, nextId, clock, started, returned, reached>>

\* update_product: conn.commit(); then 404 if the UPDATE matched no row.  A
\* connectivity error during commit is a 503 whether or not the server had
\* already made the transaction durable.
UpdCommit(p) ==
    /\ req[p].pc = "u_commit"
    /\ \E ok \in BOOLEAN, applied \in BOOLEAN :
         LET updated == req[p].row
         IN /\ ok => applied
            /\ primary' = IF applied THEN Commit(primary, updated) ELSE primary
            /\ history' = IF applied /\ updated # None
                          THEN [history EXCEPT ![TheVal(updated).id] = @ \cup updated]
                          ELSE history
            /\ rowlock' = [i \in Ids |-> IF rowlock[i] = p THEN 0 ELSE rowlock[i]]
            /\ IF ~ok
               THEN Respond(p, Append(req[p].log, Ev("primary_commit", "error", None)),
                            ServiceUnavailable, None)
               ELSE IF updated = None
               THEN Respond(p, Append(req[p].log, Ev("primary_commit", "ok", None)), NotFound, None)
               ELSE Continue(p, [req[p] EXCEPT !.pc = "u_del",
                                    !.log = Append(@, Ev("primary_commit", "ok", None))])
    /\ UNCHANGED <<replica, cache, nextId, clock, started, returned, reached>>

\* update_product: best-effort cache invalidation, then return the updated row.
UpdInvalidate(p) ==
    /\ req[p].pc = "u_del"
    /\ \E ok \in BOOLEAN :
         LET key == cache_key(req[p].product_id)
             res == IF ~ok THEN "error" ELSE IF key \in DOMAIN cache THEN "deleted" ELSE "nokey"
         IN /\ cache' = redis_del(cache, key, ok)
            /\ Respond(p, Append(req[p].log, Ev("redis_del", res, None)), Success, req[p].row)
            /\ returned' = [returned EXCEPT ![req[p].product_id] = @ \cup req[p].row]
            /\ reached' = IF ok THEN [reached EXCEPT ![req[p].product_id] = @ \cup req[p].row]
                             ELSE reached
    /\ UNCHANGED <<primary, replica, nextId, clock, rowlock, started, history>>

\* ----------------------------------------------------------- POST handler
StartCreate(p) ==
    /\ req[p].pc = "idle"
    /\ started < MaxRequests
    /\ nextId + PendingInserts \in Ids
    /\ \E payload \in CreatePayloads :
         req' = [req EXCEPT ![p] = [Idle EXCEPT !.kind = "create", !.pc = "c_insert",
                                                !.payload = payload]]
    /\ started' = started + 1
    /\ UNCHANGED <<primary, replica, cache, nextId, clock, rowlock, history, returned, reached>>
    /\ resp' = NoResponse

\* create_product: connect to the primary, INSERT ... RETURNING and fetchone().
CreInsert(p) ==
    /\ req[p].pc = "c_insert"
    /\ \E ok \in BOOLEAN :
         IF ok
         THEN /\ clock' = clock + 1
              /\ nextId' = nextId + 1
              /\ Continue(p, [req[p] EXCEPT !.pc = "c_commit", !.txnow = clock + 1,
                                 !.row = Some(InsertedRow(req[p].payload, nextId, clock + 1)),
                                 !.log = @ \o <<Ev("primary_connect", "ok", None),
                                                Ev("primary_execute", "row",
                                                   Some(InsertedRow(req[p].payload, nextId,
                                                                    clock + 1)))>>])
         ELSE /\ Respond(p, Append(req[p].log, Ev("primary_connect", "error", None)),
                         ServiceUnavailable, None)
              /\ UNCHANGED <<clock, nextId>>
    /\ UNCHANGED <<primary, replica, cache, rowlock, started, history, returned, reached>>

\* create_product: conn.commit(); a connectivity error is a 503 whether or not
\* the server had already made the transaction durable.
CreCommit(p) ==
    /\ req[p].pc = "c_commit"
    /\ \E ok \in BOOLEAN, applied \in BOOLEAN :
         LET created == req[p].row
             id == TheVal(created).id
         IN /\ ok => applied
            /\ primary' = IF applied THEN Commit(primary, created) ELSE primary
            /\ history' = IF applied THEN [history EXCEPT ![id] = @ \cup created] ELSE history
            /\ IF ok
               THEN Continue(p, [req[p] EXCEPT !.pc = "c_set",
                                    !.log = Append(@, Ev("primary_commit", "ok", None))])
               ELSE Respond(p, Append(req[p].log, Ev("primary_commit", "error", None)),
                            ServiceUnavailable, None)
    /\ UNCHANGED <<replica, cache, nextId, clock, rowlock, started, returned, reached>>

\* create_product: best-effort cache prefill, then return the created row.
CrePrefill(p) ==
    /\ req[p].pc = "c_set"
    /\ \E ok \in BOOLEAN :
         LET created == TheVal(req[p].row)
         IN /\ cache' = redis_set_json(cache, cache_key(created.id), created,
                                       CACHE_TTL_SECONDS, ok)
            /\ Respond(p, Append(req[p].log, Ev("redis_set", IF ok THEN "ok" ELSE "error", None)),
                       Created, req[p].row)
            /\ returned' = [returned EXCEPT ![created.id] = @ \cup req[p].row]
            /\ reached' = IF ok THEN [reached EXCEPT ![created.id] = @ \cup req[p].row]
                             ELSE reached
    /\ UNCHANGED <<primary, replica, nextId, clock, rowlock, started, history>>

\* ------------------------------------------------------------ environment
\* Streaming replication catches the replica up with the primary.
Replicate ==
    /\ replica # primary
    /\ replica' = primary
    /\ UNCHANGED <<primary, cache, nextId, clock, rowlock, req, started, history, returned, reached>>
    /\ resp' = NoResponse

\* Redis drops the entry of key k when its TTL has run out.
ExpireKey(k) ==
    /\ k \in DOMAIN cache
    /\ cache[k].ttl > 0
    /\ cache' = [j \in DOMAIN cache \ {k} |-> cache[j]]
    /\ UNCHANGED <<primary, replica, nextId, clock, rowlock, req, started, history, returned, reached>>
    /\ resp' = NoResponse

\* Redis drops an entry whose TTL has run out.
Expire == \E k \in DOMAIN cache : ExpireKey(k)

Next ==
    \/ \E p \in Procs : StartGet(p)
    \/ \E p \in Procs : GetCacheLookup(p)
    \/ \E p \in Procs : GetFetchReplica(p)
    \/ \E p \in Procs : GetFetchPrimary(p)
    \/ \E p \in Procs : GetCacheStore(p)
    \/ \E p \in Procs : StartUpdate(p)
    \/ \E p \in Procs : UpdBegin(p)
    \/ \E p \in Procs : UpdExecute(p)
    \/ \E p \in Procs : UpdCommit(p)
    \/ \E p \in Procs : UpdInvalidate(p)
    \/ \E p \in Procs : StartCreate(p)
    \/ \E p \in Procs : CreInsert(p)
    \/ \E p \in Procs : CreCommit(p)
    \/ \E p \in Procs : CrePrefill(p)
    \/ Replicate
    \/ Expire

Spec == Init /\ [][Next]_vars

\* One external call of the request worker p is handling, with its outcome.
HandlerStep(p) ==
    \/ GetCacheLookup(p) \/ GetFetchReplica(p) \/ GetFetchPrimary(p) \/ GetCacheStore(p)
    \/ UpdBegin(p) \/ UpdExecute(p) \/ UpdCommit(p) \/ UpdInvalidate(p)
    \/ CreInsert(p) \/ CreCommit(p) \/ CrePrefill(p)

\* The program under the scheduling it runs with: every call a handler makes
\* returns or raises (Redis calls within the socket timeouts, PostgreSQL calls
\* by the server's answer or the connection's failure), and Redis enforces
\* the TTL of every key.
FairSpec ==
    /\ Spec
    /\ \A p \in Procs : WF_vars(HandlerStep(p))
    /\ \A i \in Ids : WF_vars(ExpireKey(cache_key(i)))

\* ================================================================ claims
\* The response in resp is the one sent by the step just taken, so a state
\* predicate over resp, cache and primary speaks of the state in which the
\* request returns.

IsResp(kind) == resp.kind = kind
LogLen == Len(resp.log)
RespKey == cache_key(resp.product_id)
\* The cache entry json.dumps/setex writes for row r.
EntryFor(r) == [value |-> JsonDumps(r), ttl |-> CACHE_TTL_SECONDS]
\* Some call of the log is a cache write (set or delete).
NoCacheWrite(log) == Count(log, "redis_set") = 0 /\ Count(log, "redis_del") = 0

\* C1: a Get whose cache entry is present on a reachable cache returns the
\* cached value and makes no store call (replica or primary), also when the
\* cached copy differs from the primary's current row.
C1_CacheHitNoStore ==
    (IsResp("get") /\ resp.log[1] = Ev("redis_get", "present", None)) =>
        /\ LogLen = 1
        /\ Count(resp.log, "replica") = 0
        /\ Count(resp.log, "primary") = 0
        /\ resp.status = Success
        /\ RespKey \in DOMAIN cache
        /\ resp.result = Some(JsonLoads(cache[RespKey].value))

\* C1 witness: a cache hit that returns a copy older than the primary's row.
C1_Witness ==
    /\ IsResp("get")
    /\ resp.log[1] = Ev("redis_get", "present", None)
    /\ resp.status = Success
    /\ resp.product_id \in DOMAIN primary
    /\ resp.result # Some(JsonLoads(JsonDumps(primary[resp.product_id])))

\* C2: a Get whose id is absent from the cache and whose replica fetch returns
\* a row queries the replica exactly once, the primary never, and returns the
\* replica's row.
C2_ReplicaOnly ==
    (/\ IsResp("get")
     /\ resp.log[1] = Ev("redis_get", "absent", None)
     /\ LogLen >= 2
     /\ resp.log[2][1] = "replica" /\ resp.log[2][2] = "row") =>
        /\ resp.status = Success
        /\ resp.result = resp.log[2][3]
        /\ Count(resp.log, "replica") = 1
        /\ Count(resp.log, "primary") = 0

\* C2 witness: a Get served by the replica after a cache miss.
C2_Witness ==
    /\ IsResp("get")
    /\ resp.log[1] = Ev("redis_get", "absent", None)
    /\ LogLen >= 2
    /\ resp.log[2][1] = "replica" /\ resp.log[2][2] = "row"
    /\ resp.status = Success
    /\ resp.result # None

\* The case of C3: cache miss, replica fetch fails, primary fetch returns a row.
C3_Case ==
    /\ IsResp("get")
    /\ resp.log[1] = Ev("redis_get", "absent", None)
    /\ LogLen >= 3
    /\ resp.log[2] = Ev("replica", "error", None)
    /\ resp.log[3][1] = "primary" /\ resp.log[3][2] = "row"

\* C3 as stated: in that case the Get returns the primary's row and the cache
\* entry of the id is populated with it under the configured TTL.
C3_AsStated ==
    C3_Case =>
        /\ resp.status = Success
        /\ resp.result = resp.log[3][3]
        /\ RespKey \in DOMAIN cache
        /\ cache[RespKey] = EntryFor(TheVal(resp.log[3][3]))

\* C3 amended: in that case the Get returns the primary's row, and if the
\* cache write reaches Redis the entry of the id then holds the row's JSON
\* serialisation under the configured TTL (a failed write leaves the cache as
\* it was and does not change the response).
C3_FallbackPopulates ==
    C3_Case =>
        /\ resp.status = Success
        /\ resp.result = resp.log[3][3]
        /\ LogLen = 4
        /\ resp.log[4][1] = "redis_set"
        /\ resp.log[4][2] = "ok" =>
              /\ RespKey \in DOMAIN cache
              /\ cache[RespKey] = EntryFor(TheVal(resp.log[3][3]))

\* C3 witness: the fallback served the Get and the cache write went through.
C3_Witness ==
    /\ C3_Case
    /\ resp.status = Success
    /\ resp.log[4] = Ev("redis_set", "ok", None)
    /\ RespKey \in DOMAIN cache

\* C4: a Get that misses the cache and whose replica and primary fetches both
\* fail answers ServiceUnavailable after exactly those two store attempts and
\* has issued no cache write.
C4_BothDown ==
    (/\ IsResp("get")
     /\ resp.log[1][2] # "present"
     /\ LogLen >= 3
     /\ resp.log[2] = Ev("replica", "error", None)
     /\ resp.log[3] = Ev("primary", "error", None)) =>
        /\ resp.status = ServiceUnavailable
        /\ resp.result = None
        /\ LogLen = 3
        /\ NoCacheWrite(resp.log)

\* C4 witness: a 503 Get while the cache held an entry for another id.
C4_Witness ==
    /\ IsResp("get")
    /\ resp.status = ServiceUnavailable
    /\ Count(resp.log, "replica") = 1
    /\ Count(resp.log, "primary") = 1
    /\ DOMAIN cache # {}

\* C5: an Update with neither name nor price_cents answers BadRequest before
\* any store or cache call, whether or not the id exists.
C5_NoFieldsBadRequest ==
    (IsResp("update") /\ DOMAIN resp.payload = {}) =>
        /\ resp.status = BadRequest
        /\ resp.result = None
        /\ resp.log = <<>>

\* C5 witness: a 400 for an id that exists in the primary.
C5_Witness ==
    /\ IsResp("update")
    /\ DOMAIN resp.payload = {}
    /\ resp.status = BadRequest
    /\ resp.product_id \in DOMAIN primary

\* The last call of the response's log.
LastEv == resp.log[LogLen]
\* No call of the log failed.
NoError(log) == \A i \in 1..Len(log) : log[i][2] # "error"

\* C6 as stated: after a successful Update the cache entry of the id is absent.
C6_AsStated ==
    (IsResp("update") /\ resp.status = Success) => RespKey \notin DOMAIN cache

\* C6 amended: a successful Update ends with one cache delete and no cache set
\* (deleted, not refreshed); if that delete reaches Redis the entry of the id
\* is absent when the Update returns, and a Get that finds the entry absent
\* reads the store.  If the delete fails the old entry stays.
C6_InvalidateOnSuccess ==
    /\ (IsResp("update") /\ resp.status = Success) =>
          /\ LastEv[1] = "redis_del"
          /\ Count(resp.log, "redis_del") = 1
          /\ Count(resp.log, "redis_set") = 0
          /\ LastEv[2] # "error" => RespKey \notin DOMAIN cache
    /\ (IsResp("get") /\ resp.log[1] = Ev("redis_get", "absent", None)) =>
          /\ LogLen >= 2
          /\ resp.log[2][1] = "replica"

\* C6 witness: a successful Update whose delete removed an existing entry.
C6_Witness ==
    /\ IsResp("update")
    /\ resp.status = Success
    /\ LastEv = Ev("redis_del", "deleted", None)
    /\ RespKey \notin DOMAIN cache

\* The record a Create returned.
CreatedRow == TheVal(resp.result)

\* What C7 says of the returned record: an id the store assigned and committed
\* it under, the given name and price_cents, a timestamp in updated_at.
C7_Returned ==
    /\ resp.result # None
    /\ CreatedRow.id \in Ids
    /\ CreatedRow \in history[CreatedRow.id]
    /\ CreatedRow.name = resp.payload.name
    /\ CreatedRow.price_cents = resp.payload.price_cents
    /\ CreatedRow.updated_at[1] = "datetime"

\* C7 as stated: a successful Create returns such a record and the cache then
\* holds it under product:{id}.
C7_AsStated ==
    (IsResp("create") /\ resp.status = Created) =>
        /\ C7_Returned
        /\ cache_key(CreatedRow.id) \in DOMAIN cache
        /\ cache[cache_key(CreatedRow.id)] = EntryFor(CreatedRow)

\* C7 amended: a successful Create returns such a record, and if the cache
\* prefill reaches Redis the cache then holds the record's JSON serialisation
\* under product:{id} with the configured TTL.
C7_CreateReturnsAndPrefills ==
    (IsResp("create") /\ resp.status = Created) =>
        /\ C7_Returned
        /\ LastEv[1] = "redis_set"
        /\ LastEv[2] = "ok" =>
              /\ cache_key(CreatedRow.id) \in DOMAIN cache
              /\ cache[cache_key(CreatedRow.id)] = EntryFor(CreatedRow)

\* C7 witness: a Create whose prefill went through.
C7_Witness ==
    /\ IsResp("create")
    /\ resp.status = Created
    /\ LastEv = Ev("redis_set", "ok", None)
    /\ cache[cache_key(CreatedRow.id)] = EntryFor(CreatedRow)

\* The case of C8: a Get of the id of a product p that a Create had returned
\* when the Get was accepted, finding the cache entry absent, with no Update
\* of the id committed so far.
C8_Case ==
    /\ IsResp("get")
    /\ Cardinality(resp.seen) = 1
    /\ history[resp.product_id] = resp.seen
    /\ resp.log[1] = Ev("redis_get", "absent", None)

\* The Get's result equals p in name and price_cents.
C8_EqualsCreated ==
    /\ resp.result # None
    /\ TheVal(resp.result).name = TheVal(resp.seen).name
    /\ TheVal(resp.result).price_cents = TheVal(resp.seen).price_cents

\* C8 as stated (all store calls answering): that Get returns a record equal
\* to p in name and price_cents.
C8_AsStated ==
    (C8_Case /\ NoError(resp.log)) => (resp.status = Success /\ C8_EqualsCreated)

\* C8 amended: whenever that Get returns a record it equals p in name and
\* price_cents; it answers NotFound only when the replica answered and did
\* not yet hold the row, and ServiceUnavailable only when both fetches failed.
C8_RoundTrip ==
    C8_Case =>
        /\ resp.status \in {Success, NotFound, ServiceUnavailable}
        /\ resp.status = Success => C8_EqualsCreated
        /\ resp.status = NotFound => resp.log[2] = Ev("replica", "none", None)
        /\ resp.status = ServiceUnavailable =>
              /\ resp.log[2] = Ev("replica", "error", None)
              /\ resp.log[3] = Ev("primary", "error", None)

\* C8 witness: the round trip through the store, for the second product created.
C8_Witness ==
    /\ C8_Case
    /\ resp.status = Success
    /\ C8_EqualsCreated
    /\ resp.product_id = 2

\* Every cache write of the log comes after an acknowledged commit.
CommitBeforeCacheWrite(log) ==
    \A i \in 1..Len(log) :
        log[i][1] \in {"redis_set", "redis_del"} =>
            \E j \in 1..(i - 1) : log[j] = Ev("primary_commit", "ok", None)

\* C9: in every Update and Create the cache delete/set is issued only after
\* the store acknowledged the commit of that write; the row it is issued for
\* is a committed version.
C9_CacheAfterCommit ==
    /\ \A p \in Procs :
          req[p].kind \in {"update", "create"} =>
              /\ CommitBeforeCacheWrite(req[p].log)
              /\ req[p].pc \in {"u_del", "c_set"} =>
                    /\ LET last == req[p].log[Len(req[p].log)]
                       IN last = Ev("primary_commit", "ok", None)
                    /\ TheVal(req[p].row) \in history[TheVal(req[p].row).id]
    /\ (resp.kind \in {"update", "create"} /\ ~NoCacheWrite(resp.log)) =>
          /\ CommitBeforeCacheWrite(resp.log)
          /\ resp.result # None
          /\ TheVal(resp.result) \in history[TheVal(resp.result).id]

\* C9 witness: an Update that issued its cache delete.
C9_Witness ==
    /\ IsResp("update")
    /\ Count(resp.log, "redis_del") = 1
    /\ Count(resp.log, "primary_commit") = 1

IsStoreCall(e) == e[1] \notin {"redis_get", "redis_set", "redis_del"}
\* The store calls of a log, in order.
StoreView(log) == SelectSeq(log, IsStoreCall)
\* The operations of a sequence of calls.
Ops(sv) == [i \in 1..Len(sv) |-> sv[i][1]]

\* The store calls a request makes, given only the store's answers.
StoreCallsExpected(kind, sv) ==
    IF kind = "get"
    THEN \/ Ops(sv) = <<"replica">> /\ sv[1][2] # "error"
         \/ Ops(sv) = <<"replica", "primary">> /\ sv[1][2] = "error"
    ELSE LET full == <<"primary_connect", "primary_execute", "primary_commit">>
         IN /\ Len(sv) \in 1..3
            /\ Ops(sv) = SubSeq(full, 1, Len(sv))
            /\ \A i \in 1..(Len(sv) - 1) : sv[i][2] # "error"
            /\ Len(sv) < 3 => sv[Len(sv)][2] = "error"

\* The outcome of a request, given only its input and the store's answers.
OutcomeFromStore(kind, payload, sv) ==
    IF kind = "update" /\ DOMAIN payload = {} THEN <<BadRequest, None>>
    ELSE LET last == sv[Len(sv)]
             ans == IF last[1] = "primary_commit" THEN sv[Len(sv) - 1] ELSE last
         IN IF last[2] = "error" THEN <<ServiceUnavailable, None>>
            ELSE IF ans[2] = "none" THEN <<NotFound, None>>
            ELSE <<IF kind = "create" THEN Created ELSE Success, ans[3]>>

\* C10: the outcome of a request that was not served from the cache, and the
\* store calls it made, are a function of the request and of the store's
\* answers alone: a cache call that fails gives the same outcome as a cache
\* that answers and has no entry.
C10_CacheNeverDecides ==
    (/\ resp.kind # "none"
     /\ ~(IsResp("get") /\ resp.log[1][2] = "present")
     /\ ~(IsResp("update") /\ DOMAIN resp.payload = {})) =>
        /\ StoreCallsExpected(resp.kind, StoreView(resp.log))
        /\ <<resp.status, resp.result>> =
              OutcomeFromStore(resp.kind, resp.payload, StoreView(resp.log))

\* C10 witness: a Get served by the store with Redis failing at both cache calls.
C10_Witness ==
    /\ IsResp("get")
    /\ resp.status = Success
    /\ resp.log[1] = Ev("redis_get", "error", None)
    /\ LastEv = Ev("redis_set", "error", None)

\* The calls of a write request so far: the primary only (no fetch over the
\* replica or the read path), one connection at most, and no call after a
\* connectivity error.
PrimaryOnlyNoRetry(log) ==
    /\ Count(log, "replica") = 0
    /\ Count(log, "primary") = 0
    /\ Count(log, "primary_connect") <= 1
    /\ \A i \in 1..Len(log) :
          (IsStoreCall(log[i]) /\ log[i][2] = "error") => i = Len(log)

\* C11: Create and Update contact only the primary, never the replica; a
\* connectivity error of the primary ends the request in ServiceUnavailable
\* at once, with no fallback and no second attempt.
C11_WritesPrimaryOnly ==
    /\ \A p \in Procs :
          req[p].kind \in {"update", "create"} =>
              /\ PrimaryOnlyNoRetry(req[p].log)
              /\ \A i \in 1..Len(req[p].log) : req[p].log[i][2] # "error"
    /\ resp.kind \in {"update", "create"} =>
          /\ PrimaryOnlyNoRetry(resp.log)
          /\ (LogLen > 0 /\ IsStoreCall(LastEv) /\ LastEv[2] = "error") <=>
                resp.status = ServiceUnavailable

\* C11 witness: an Update answered 503 after its single failed connection.
C11_Witness ==
    /\ IsResp("update")
    /\ resp.status = ServiceUnavailable
    /\ resp.log = <<Ev("primary_connect", "error", None)>>

\* C12: for every product id, updated_at strictly increases across the
\* successive committed mutations of the row (its creation, then every
\* successful update, concurrent ones included): when an Update's commit is
\* acknowledged over a row that a successful Create or Update had returned,
\* the row's new updated_at is later than the one it replaces.
C12_UpdatedAtIncreases ==
    [][\A p \in Procs :
          LET id == req[p].product_id
          IN (/\ req[p].pc = "u_commit"
              /\ req'[p].pc = "u_del"
              /\ primary[id] \in returned[id]) =>
                 primary'[id].updated_at[2] > primary[id].updated_at[2]]_vars

\* The case of C13: an Update with at least one field whose UPDATE matched no
\* row in the primary, no call having failed.
C13_Case ==
    /\ IsResp("update")
    /\ ~NoFields(resp.payload)
    /\ NoError(resp.log)
    /\ LogLen >= 2
    /\ resp.log[2] = Ev("primary_execute", "none", None)

\* C13: an Update with at least one field for an id that has no row in the
\* primary answers NotFound; it issues no cache delete, and no step of it
\* changes the cache, so the entry of the id is left as it was.
C13_NotFoundLeavesCache ==
    [][/\ \A p \in Procs :
             (/\ req[p].kind = "update"
              /\ req[p].row = None
              /\ req'[p] # req[p]) => cache' = cache
       /\ C13_Case' =>
             /\ resp'.status = NotFound
             /\ resp'.result = None
             /\ Len(resp'.log) = 3
             /\ NoCacheWrite(resp'.log)]_vars

\* C13 witness: the Update answers NotFound while the cache holds an entry of
\* the id (a Create of the id committed after the UPDATE ran).
C13_Witness ==
    /\ C13_Case
    /\ resp.status = NotFound
    /\ RespKey \in DOMAIN cache

\* The store attempts of a request so far stay within the handler's straight
\* line: two fetches for a Get (replica, then primary), one connection for a
\* write.
AttemptsBounded(kind, log) ==
    IF kind = "get"
    THEN /\ Count(log, "replica") <= 1
         /\ Count(log, "primary") <= 1
    ELSE Count(log, "primary_connect") <= 1

\* Every response carries one of the terminal states, and no request exceeds
\* its store attempts.
C14_OneTerminalState ==
    /\ \A p \in Procs : AttemptsBounded(req[p].kind, req[p].log)
    /\ resp.kind # "none" =>
          /\ resp.status \in {Success, Created, NotFound, ServiceUnavailable, BadRequest}
          /\ AttemptsBounded(resp.kind, resp.log)
          /\ resp.kind = "get" => resp.status \in {Success, NotFound, ServiceUnavailable}
          /\ resp.kind = "create" => resp.status \in {Created, ServiceUnavailable}

\* C14: every Get, Create or Update that was accepted eventually returns, with
\* exactly one terminal state among Success, NotFound, ServiceUnavailable and
\* BadRequest, whatever the cache, the replica and the primary answer; a Get
\* makes at most two store attempts and a write at most one.
C14_EveryRequestTerminates ==
    /\ []C14_OneTerminalState
    /\ \A p \in Procs : []<>(req[p].pc = "idle")

\* C14 witness: a Get returns 503 after both of its store attempts failed,
\* the cache being unreachable as well.
C14_Witness ==
    /\ IsResp("get")
    /\ resp.status = ServiceUnavailable
    /\ resp.log[1] = Ev("redis_get", "error", None)
    /\ Count(resp.log, "replica") + Count(resp.log, "primary") = 2

\* The case of C15: a Get that found no cache entry, fetched a row and wrote
\* it to the cache, every cache call of it answering.
C15_Case ==
    /\ IsResp("get")
    /\ resp.log[1] = Ev("redis_get", "absent", None)
    /\ LastEv = Ev("redis_set", "ok", None)

\* No request is in flight.
AllCompleted == \A p \in Procs : req[p].pc = "idle"

\* Every committed version of the id was returned by a successful Create or
\* Update whose cache call Redis answered.
CacheReachedByWrites(id) == history[id] \subseteq reached[id]

\* C15 as stated: with the cache reachable, once all requests have completed
\* the cache entry of the id is absent or equal to the primary's current
\* record (so no later Get is served a pre-update value from the cache).
C15_AsStated ==
    (C15_Case /\ AllCompleted /\ CacheReachedByWrites(resp.product_id)) =>
        (RespKey \in DOMAIN cache => cache[RespKey] = EntryFor(primary[resp.product_id]))

\* C15 amended: the entry such a Get leaves is the serialisation of the row
\* its fetch returned, which is a version committed in the primary; it is the
\* current record as long as no Update of the id has committed, and may be a
\* pre-update version otherwise.
C15_CacheHoldsFetchedVersion ==
    C15_Case =>
        /\ resp.status = Success
        /\ RespKey \in DOMAIN cache
        /\ cache[RespKey] = EntryFor(TheVal(resp.result))
        /\ TheVal(resp.result) \in history[resp.product_id]
        /\ Cardinality(history[resp.product_id]) = 1 =>
              cache[RespKey] = EntryFor(primary[resp.product_id])

\* C15 witness: all requests have completed and the Get has left a
\* pre-update version of the record in the cache.
C15_Witness ==
    /\ C15_Case
    /\ AllCompleted
    /\ CacheReachedByWrites(resp.product_id)
    /\ cache[RespKey] # EntryFor(primary[resp.product_id])
    /\ TheVal(resp.result) \in history[resp.product_id]

\* The case of C16: a Get that missed the cache and whose replica fetch
\* answered with no row.
C16_Case ==
    /\ IsResp("get")
    /\ resp.log[1][2] # "present"
    /\ LogLen >= 2
    /\ resp.log[2] = Ev("replica", "none", None)

\* C16: a Get that misses the cache and to which the replica answers with no
\* row for the id answers NotFound without querying the primary, and issues
\* no cache write (no negative entry), also when the primary holds the row.
C16_ReplicaNoneIsNotFound ==
    C16_Case =>
        /\ resp.status = NotFound
        /\ resp.result = None
        /\ LogLen = 2
        /\ Count(resp.log, "primary") = 0
        /\ NoCacheWrite(resp.log)

\* C16 witness: NotFound from a lagging replica while the primary holds the
\* row and the cache holds no entry of the id.
C16_Witness ==
    /\ C16_Case
    /\ resp.status = NotFound
    /\ resp.log[1] = Ev("redis_get", "absent", None)
    /\ resp.product_id \in DOMAIN primary
    /\ RespKey \notin DOMAIN cache

\* C17: a successful Update changes only the row of its id, and in it only the
\* supplied fields and updated_at: id is unchanged, a field the request did
\* not supply keeps its previous value, every other row is unchanged; no
\* other step of an Update changes the primary.
C17_UpdateFrame ==
    [][\A p \in Procs :
          LET id == req[p].product_id
              payload == req[p].payload
          IN (req[p].kind = "update" /\ req'[p] # req[p]) =>
                IF req[p].pc = "u_commit" /\ req'[p].pc = "u_del"
                THEN /\ DOMAIN primary' = DOMAIN primary
                     /\ \A i \in DOMAIN primary \ {id} : primary'[i] = primary[i]
                     /\ primary'[id].id = id
                     /\ primary'[id].name =
                           IF "name" \in DOMAIN payload THEN payload.name
                           ELSE primary[id].name
                     /\ primary'[id].price_cents =
                           IF "price_cents" \in DOMAIN payload THEN payload.price_cents
                           ELSE primary[id].price_cents
                     /\ primary'[id].updated_at = Datetime(req[p].txnow)
                     /\ req'[p].row = Some(primary'[id])
                ELSE req[p].pc # "u_commit" => primary' = primary]_vars

\* C17 witness: an Update of the name alone has returned, the row keeps the
\* price it had and the other row of the primary is still there.
C17_Witness ==
    /\ IsResp("update")
    /\ resp.status = Success
    /\ resp.payload = [name |-> "Cider"]
    /\ TheVal(resp.result).price_cents = 250
    /\ primary[resp.product_id] = TheVal(resp.result)
    /\ DOMAIN primary = {1, 2}

\* The row the write of the response in resp would have committed, if its
\* statement ran.
WrittenRow ==
    IF LogLen >= 2 /\ resp.log[2][1] = "primary_execute" THEN resp.log[2][3] ELSE None

\* The case of C18: a Create or an Update has answered ServiceUnavailable.
C18_Case ==
    /\ resp.kind \in {"update", "create"}
    /\ resp.status = ServiceUnavailable

EveryEntryExpires ==
    \A k \in DOMAIN cache : cache[k].ttl = CACHE_TTL_SECONDS /\ cache[k].ttl > 0

\* C19: every cache entry the program writes (on a Get miss or on Create) is
\* written with the configured TTL, never without an expiry; so, Redis
\* enforcing the expiry, the entry of every id is absent again after each
\* write: once the requests for the id have ended it is eventually absent.
C19_EntriesExpire ==
    /\ []EveryEntryExpires
    /\ \A i \in Ids : []<>(cache_key(i) \notin DOMAIN cache)

\* C19 witness: a Get has just written the entry of its id, with the
\* configured TTL, and no request is left in flight.
C19_Witness ==
    /\ IsResp("get")
    /\ LastEv = Ev("redis_set", "ok", None)
    /\ AllCompleted
    /\ RespKey \in DOMAIN cache
    /\ cache[RespKey].ttl = CACHE_TTL_SECONDS

\* C20: in every reachable state, a cache entry present under product:{id}
\* holds a record whose id is that id and which is the serialisation of some
\* version of the product committed in the primary (the current one or an
\* earlier one), never an uncommitted or fabricated record.
C20_CacheHoldsCommitted ==
    \A k \in DOMAIN cache :
        LET rec == JsonLoads(cache[k].value)
        IN /\ k[1] = "product"
           /\ k[2] \in Ids
           /\ rec.id = k[2]
           /\ \E v \in history[k[2]] : cache[k].value = JsonDumps(v)

\* C20 witness: the cache holds an earlier committed version of a product
\* than the primary's current one.
C20_Witness ==
    \E i \in DOMAIN primary :
        /\ cache_key(i) \in DOMAIN cache
        /\ cache[cache_key(i)].value # JsonDumps(primary[i])
        /\ \E v \in history[i] : cache[cache_key(i)].value = JsonDumps(v)

====
